---- MODULE Spec2Model ----
(***************************************************************************)
(* Field codecs and the translation record decoder of gtfs-structure       *)
(* (src/src/objects.rs).                                                   *)
(*                                                                         *)
(* Each subsystem has its own specification over the shared variables:     *)
(*   SpecTranslation  Translation::deserialize (visit_map scan + dispatch) *)
(*   SpecRouteType    RouteType deserialize / serialize                    *)
(*   SpecTransfers    Transfers deserialize / serialize                    *)
(*   SpecTime         parse_time / parse_time_impl                         *)
(*   SpecColor        parse_color / serialize_optional_color               *)
(*   SpecLocalize     Translatable for Stop, StopTime, Route and Trip      *)
(*   SpecLenient      LocationType, Availability, PickupDropOffType decode *)
(*   SpecDate         serialize_date / deserialize_date                    *)
(* A specification activates one subsystem; the variables of the others    *)
(* stay at their idle values.                                              *)
(*                                                                         *)
(* Conventions: Option<T> is a sequence, <<>> for None and <<x>> for       *)
(* Some(x).  A text is a sequence of one-character strings, except the     *)
(* cells of a translation record, which are never inspected by the code    *)
(* and are kept as TLA+ strings.                                           *)
(***************************************************************************)
EXTENDS Integers, Sequences, FiniteSets, TLC

VARIABLES
    \* Translation::deserialize
    record,        \* the input map: field name -> cell text
    remaining,     \* keys the MapAccess has not yet handed out
    maybe,         \* the nine maybe_* locals of visit_map
    tpc,           \* "idle" | "scan" | "done"
    outcome,       \* result of visit_map once tpc = "done"
    \* RouteType
    rt_wire,       \* the u16 read from the wire
    route_type,    \* the decoded RouteType
    rt_out,        \* the u16 written by Serialize
    rt_again,      \* the RouteType decoded from rt_out
    rpc,           \* "idle" | "wire" | "decoded" | "encoded" | "redecoded"
    \* Transfers
    tr_wire,       \* Option<u16> read from the wire
    transfers,     \* the decoded Transfers
    tr_out,        \* Option<u16> written by Serialize
    xpc,           \* "idle" | "wire" | "decoded" | "encoded"
    \* parse_time
    time_text,     \* the argument s
    time_build,    \* "checked" | "wrapping": overflow-checks of the build
    time_result,   \* result of parse_time
    mpc,           \* "idle" | "call" | "done"
    \* parse_color / serialize_optional_color
    color_text,    \* the argument s
    color,         \* Option<RGB8> held in memory
    color_result,  \* result of parse_color
    color_out,     \* text written by serialize_optional_color
    cpc,           \* "idle" | "call" | "parsed" | "value" | "encoded"
    \* Translatable::translate
    index,         \* the translation index of the Gtfs: ByIdKey -> text
    heap,          \* the Arc<Stop> allocations: handle -> Stop
    entity,        \* the entity translate is called on (&self)
    language,      \* the language argument
    result,        \* the value returned by the last translate call
    lookups,       \* the calls of gtfs.translate made by the last call
    calls,         \* number of translate calls made so far
    \* lenient enumerations
    len_kind,      \* which member is decoded
    len_cell,      \* Option<text>: the cell, None when the column is absent
    len_result,    \* result of the decode
    epc,           \* "idle" | "cell" | "done"
    \* calendar dates
    date_in,       \* the NaiveDate given to serialize_date
    date_text,     \* the text serialize_date wrote
    date_back,     \* result of deserialize_date on that text
    dpc            \* "idle" | "date" | "encoded" | "decoded"

transVars == <<record, remaining, maybe, tpc, outcome>>
rtVars    == <<rt_wire, route_type, rt_out, rt_again, rpc>>
trVars    == <<tr_wire, transfers, tr_out, xpc>>
timeVars  == <<time_text, time_build, time_result, mpc>>
colorVars == <<color_text, color, color_result, color_out, cpc>>
locVars   == <<index, heap, entity, language, result, lookups, calls>>
lenVars   == <<len_kind, len_cell, len_result, epc>>
dateVars  == <<date_in, date_text, date_back, dpc>>
vars == <<transVars, rtVars, trVars, timeVars, colorVars, locVars, lenVars,
          dateVars>>

None == <<>>
Some(x) == <<x>>

(***************************************************************************)
(* Idle values                                                             *)
(***************************************************************************)
TransIdle ==
    /\ record = <<>>
    /\ remaining = {}
    /\ maybe = <<>>
    /\ tpc = "idle"
    /\ outcome = [kind |-> "none"]

RtIdle ==
    /\ rt_wire = 0
    /\ route_type = [tag |-> "none"]
    /\ rt_out = 0
    /\ rt_again = [tag |-> "none"]
    /\ rpc = "idle"

TrIdle ==
    /\ tr_wire = None
    /\ transfers = [tag |-> "none"]
    /\ tr_out = None
    /\ xpc = "idle"

TimeIdle ==
    /\ time_text = <<>>
    /\ time_build = "checked"
    /\ time_result = [kind |-> "none"]
    /\ mpc = "idle"

ColorIdle ==
    /\ color_text = <<>>
    /\ color = None
    /\ color_result = [kind |-> "none"]
    /\ color_out = None
    /\ cpc = "idle"

LocIdle ==
    /\ index = <<>>
    /\ heap = <<>>
    /\ entity = [kind |-> "none"]
    /\ language = ""
    /\ result = [kind |-> "none"]
    /\ lookups = {}
    /\ calls = 0

LenIdle ==
    /\ len_kind = "none"
    /\ len_cell = None
    /\ len_result = [kind |-> "none"]
    /\ epc = "idle"

DateIdle ==
    /\ date_in = <<0, 0, 0>>
    /\ date_text = <<>>
    /\ date_back = [kind |-> "none"]
    /\ dpc = "idle"

(***************************************************************************)
(* Translation::deserialize                                                *)
(***************************************************************************)
\* enum Field: the identifiers the derived field_identifier accepts.
Fields ==
    {"table_name", "field_name", "language", "translation", "record_id",
     "record_sub_id", "field_value", "trans_id", "lang"}

\* Fields whose struct member is Option<String>.
OptionFields == {"record_id", "record_sub_id", "field_value"}

\* A column name that is not a Field: next_key() fails on it.
UnknownName == "stop_id"

ColumnNames == Fields \cup {UnknownName}

\* The non-empty cell text each column carries in the input records.
CellText ==
    [table_name |-> "stops", field_name |-> "stop_name", language |-> "fr",
     translation |-> "Gare", record_id |-> "S1", record_sub_id |-> "2",
     field_value |-> "Station", trans_id |-> "T9", lang |-> "nl",
     stop_id |-> "S7"]

\* map.next_value() at the member's type: String keeps the cell, an
\* Option<String> member reads an empty cell as None.
NextValue(f, cell) ==
    IF f \in OptionFields
    THEN (IF cell = "" THEN None ELSE Some(cell))
    ELSE cell

MaybeInit == [f \in Fields |-> None]

\* Mutant of StoreField: the "lang" spelling is folded into the language
\* slot instead of its own.
StoreFieldAliased(m, f, cell) ==
    IF f = "lang"
    THEN [m EXCEPT !["language"] = Some(cell)]
    ELSE [m EXCEPT ![f] = Some(NextValue(f, cell))]

\* One arm of the match in the scan loop: maybe_<f> = Some(next_value).
StoreField(m, f, cell) == [m EXCEPT ![f] = Some(NextValue(f, cell))]

IsSome(o) == o # None
Unwrap(o) == o[1]

GenericMembers ==
    <<"table_name", "field_name", "language", "translation", "record_id",
      "record_sub_id", "field_value">>

\* Mutant of Dispatch: the generic shape is tried first.
DispatchGenericFirst(m) ==
    IF \A i \in 1..Len(GenericMembers) : IsSome(m[GenericMembers[i]])
    THEN [kind |-> "Gtfs",
          table_name |-> Unwrap(m["table_name"]),
          field_name |-> Unwrap(m["field_name"]),
          language |-> Unwrap(m["language"]),
          translation |-> Unwrap(m["translation"]),
          record_id |-> Unwrap(m["record_id"]),
          record_sub_id |-> Unwrap(m["record_sub_id"]),
          field_value |-> Unwrap(m["field_value"])]
    ELSE IF IsSome(m["lang"]) /\ IsSome(m["trans_id"]) /\ IsSome(m["translation"])
         THEN [kind |-> "Nmbs",
               lang |-> Unwrap(m["lang"]),
               trans_id |-> Unwrap(m["trans_id"]),
               translation |-> Unwrap(m["translation"])]
         ELSE [kind |-> "panic"]

\* The if/else after the scan loop.  Option::unwrap on None panics.
Dispatch(m) ==
    IF IsSome(m["lang"]) /\ IsSome(m["trans_id"]) /\ IsSome(m["translation"])
    THEN [kind |-> "Nmbs",
          lang |-> Unwrap(m["lang"]),
          trans_id |-> Unwrap(m["trans_id"]),
          translation |-> Unwrap(m["translation"])]
    ELSE IF \E i \in 1..Len(GenericMembers) : ~IsSome(m[GenericMembers[i]])
         THEN [kind |-> "panic"]
         ELSE [kind |-> "Gtfs",
               table_name |-> Unwrap(m["table_name"]),
               field_name |-> Unwrap(m["field_name"]),
               language |-> Unwrap(m["language"]),
               translation |-> Unwrap(m["translation"]),
               record_id |-> Unwrap(m["record_id"]),
               record_sub_id |-> Unwrap(m["record_sub_id"]),
               field_value |-> Unwrap(m["field_value"])]

TransInit ==
    /\ \E D \in SUBSET ColumnNames :
         \E E \in SUBSET (D \cap OptionFields) :
            /\ record = [f \in D |-> IF f \in E THEN "" ELSE CellText[f]]
            /\ remaining = D
    /\ maybe = MaybeInit
    /\ tpc = "scan"
    /\ outcome = [kind |-> "none"]

\* while let Some(field) = map.next_key()? { match field { ... } }
\* The map hands out its keys in the order of the input columns, which the
\* decoder does not control: any remaining key can be next.
ScanField ==
    /\ tpc = "scan"
    /\ \E f \in remaining \cap Fields :
         /\ maybe' = StoreField(maybe, f, record[f])
         /\ remaining' = remaining \ {f}
    /\ UNCHANGED <<record, tpc, outcome>>
    /\ UNCHANGED <<rtVars, trVars, timeVars, colorVars>>
    /\ UNCHANGED <<locVars, lenVars, dateVars>>

\* next_key()? on a column that is not a Field returns the decode error.
ScanUnknown ==
    /\ tpc = "scan"
    /\ \E f \in remaining \ Fields :
         /\ outcome' = [kind |-> "error", unknown_field |-> f]
         /\ remaining' = remaining \ {f}
    /\ tpc' = "done"
    /\ UNCHANGED <<record, maybe>>
    /\ UNCHANGED <<rtVars, trVars, timeVars, colorVars>>
    /\ UNCHANGED <<locVars, lenVars, dateVars>>

\* next_key() returned None: leave the loop and build the result.
EndOfMap ==
    /\ tpc = "scan"
    /\ remaining = {}
    /\ outcome' = Dispatch(maybe)
    /\ tpc' = "done"
    /\ UNCHANGED <<record, remaining, maybe>>
    /\ UNCHANGED <<rtVars, trVars, timeVars, colorVars>>
    /\ UNCHANGED <<locVars, lenVars, dateVars>>

TransNext == ScanField \/ ScanUnknown \/ EndOfMap

InitTranslation ==
    TransInit /\ RtIdle /\ TrIdle /\ TimeIdle /\ ColorIdle
    /\ LocIdle /\ LenIdle /\ DateIdle

SpecTranslation == InitTranslation /\ [][TransNext]_vars

(***************************************************************************)
(* RouteType: Deserialize and Serialize                                    *)
(***************************************************************************)
\* Largest value of a u16, the wire type of RouteType and Transfers.
U16Max == 65535

U16 == 0..U16Max

Named(t) == [tag |-> t]
Other(i) == [tag |-> "Other", code |-> i]

\* Mutant of RouteTypeDeserialize: an unlisted code falls back to
\* RouteType::default().
RouteTypeDeserializeDefaulting(i) ==
    LET hundreds == i \div 100 IN
    IF i = 0 \/ hundreds = 9 THEN Named("Tramway")
    ELSE IF i = 1 \/ hundreds = 4 THEN Named("Subway")
    ELSE IF i = 2 \/ hundreds = 1 THEN Named("Rail")
    ELSE IF i = 3 \/ hundreds = 7 \/ hundreds = 8 THEN Named("Bus")
    ELSE IF i = 4 \/ hundreds = 10 \/ hundreds = 12 THEN Named("Ferry")
    ELSE IF i = 5 THEN Named("CableCar")
    ELSE IF i = 6 \/ hundreds = 13 THEN Named("Gondola")
    ELSE IF i = 7 \/ hundreds = 14 THEN Named("Funicular")
    ELSE IF hundreds = 2 THEN Named("Coach")
    ELSE IF hundreds = 11 THEN Named("Air")
    ELSE IF hundreds = 15 THEN Named("Taxi")
    ELSE Named("Bus")

\* Mutant of RouteTypeDeserialize: the Coach arm is placed before the
\* Rail arm and tests the wrong hundreds.
RouteTypeDeserializeShifted(i) ==
    LET hundreds == i \div 100 IN
    IF i = 0 \/ hundreds = 9 THEN Named("Tramway")
    ELSE IF i = 1 \/ hundreds = 4 THEN Named("Subway")
    ELSE IF hundreds = 1 THEN Named("Coach")
    ELSE IF i = 2 \/ hundreds = 2 THEN Named("Rail")
    ELSE IF i = 3 \/ hundreds = 7 \/ hundreds = 8 THEN Named("Bus")
    ELSE IF i = 4 \/ hundreds = 10 \/ hundreds = 12 THEN Named("Ferry")
    ELSE IF i = 5 THEN Named("CableCar")
    ELSE IF i = 6 \/ hundreds = 13 THEN Named("Gondola")
    ELSE IF i = 7 \/ hundreds = 14 THEN Named("Funicular")
    ELSE IF hundreds = 11 THEN Named("Air")
    ELSE IF hundreds = 15 THEN Named("Taxi")
    ELSE Other(i)

\* match (i, hundreds) { ... }: the arms in source order.
RouteTypeDeserialize(i) ==
    LET hundreds == i \div 100 IN
    IF i = 0 \/ hundreds = 9 THEN Named("Tramway")
    ELSE IF i = 1 \/ hundreds = 4 THEN Named("Subway")
    ELSE IF i = 2 \/ hundreds = 1 THEN Named("Rail")
    ELSE IF i = 3 \/ hundreds = 7 \/ hundreds = 8 THEN Named("Bus")
    ELSE IF i = 4 \/ hundreds = 10 \/ hundreds = 12 THEN Named("Ferry")
    ELSE IF i = 5 THEN Named("CableCar")
    ELSE IF i = 6 \/ hundreds = 13 THEN Named("Gondola")
    ELSE IF i = 7 \/ hundreds = 14 THEN Named("Funicular")
    ELSE IF hundreds = 2 THEN Named("Coach")
    ELSE IF hundreds = 11 THEN Named("Air")
    ELSE IF hundreds = 15 THEN Named("Taxi")
    ELSE Other(i)

\* Mutant of RouteTypeSerialize: Air is written as 1000, a code of the
\* Ferry rule.
RouteTypeSerializeAir1000(t) ==
    CASE t.tag = "Tramway" -> 0
      [] t.tag = "Subway" -> 1
      [] t.tag = "Rail" -> 2
      [] t.tag = "Bus" -> 3
      [] t.tag = "Ferry" -> 4
      [] t.tag = "CableCar" -> 5
      [] t.tag = "Gondola" -> 6
      [] t.tag = "Funicular" -> 7
      [] t.tag = "Coach" -> 200
      [] t.tag = "Air" -> 1000
      [] t.tag = "Taxi" -> 1500
      [] t.tag = "Other" -> t.code

\* serializer.serialize_u16(match self { ... })
RouteTypeSerialize(t) ==
    CASE t.tag = "Tramway" -> 0
      [] t.tag = "Subway" -> 1
      [] t.tag = "Rail" -> 2
      [] t.tag = "Bus" -> 3
      [] t.tag = "Ferry" -> 4
      [] t.tag = "CableCar" -> 5
      [] t.tag = "Gondola" -> 6
      [] t.tag = "Funicular" -> 7
      [] t.tag = "Coach" -> 200
      [] t.tag = "Air" -> 1100
      [] t.tag = "Taxi" -> 1500
      [] t.tag = "Other" -> t.code

RtInit ==
    /\ rt_wire \in U16
    /\ route_type = [tag |-> "none"]
    /\ rt_out = 0
    /\ rt_again = [tag |-> "none"]
    /\ rpc = "wire"

DeserializeRouteType ==
    /\ rpc = "wire"
    /\ route_type' = RouteTypeDeserialize(rt_wire)
    /\ rpc' = "decoded"
    /\ UNCHANGED <<rt_wire, rt_out, rt_again>>
    /\ UNCHANGED <<transVars, trVars, timeVars, colorVars>>
    /\ UNCHANGED <<locVars, lenVars, dateVars>>

SerializeRouteType ==
    /\ rpc = "decoded"
    /\ rt_out' = RouteTypeSerialize(route_type)
    /\ rpc' = "encoded"
    /\ UNCHANGED <<rt_wire, route_type, rt_again>>
    /\ UNCHANGED <<transVars, trVars, timeVars, colorVars>>
    /\ UNCHANGED <<locVars, lenVars, dateVars>>

\* The written code is read back by Deserialize.
RedeserializeRouteType ==
    /\ rpc = "encoded"
    /\ rt_again' = RouteTypeDeserialize(rt_out)
    /\ rpc' = "redecoded"
    /\ UNCHANGED <<rt_wire, route_type, rt_out>>
    /\ UNCHANGED <<transVars, trVars, timeVars, colorVars>>
    /\ UNCHANGED <<locVars, lenVars, dateVars>>

RtNext ==
    DeserializeRouteType \/ SerializeRouteType \/ RedeserializeRouteType

InitRouteType ==
    RtInit /\ TransIdle /\ TrIdle /\ TimeIdle /\ ColorIdle
    /\ LocIdle /\ LenIdle /\ DateIdle

SpecRouteType == InitRouteType /\ [][RtNext]_vars

(***************************************************************************)
(* Transfers: Deserialize and Serialize                                    *)
(***************************************************************************)
\* Transfers::default()
TransfersDefault == Named("Unlimited")

\* match i { Some(0) => .., Some(1) => .., Some(2) => .., Some(a) => .., None => .. }
TransfersDeserialize(i) ==
    IF i = Some(0) THEN Named("NoTransfer")
    ELSE IF i = Some(1) THEN Named("UniqueTransfer")
    ELSE IF i = Some(2) THEN Named("TwoTransfers")
    ELSE IF i # None THEN Other(i[1])
    ELSE TransfersDefault

\* Mutant of TransfersSerialize: Unlimited is written as the number 0.
TransfersSerializeZero(t) ==
    CASE t.tag = "NoTransfer" -> Some(0)
      [] t.tag = "UniqueTransfer" -> Some(1)
      [] t.tag = "TwoTransfers" -> Some(2)
      [] t.tag = "Other" -> Some(t.code)
      [] t.tag = "Unlimited" -> Some(0)

\* match self { .. => serialize_u16(n), Unlimited => serialize_none() }
TransfersSerialize(t) ==
    CASE t.tag = "NoTransfer" -> Some(0)
      [] t.tag = "UniqueTransfer" -> Some(1)
      [] t.tag = "TwoTransfers" -> Some(2)
      [] t.tag = "Other" -> Some(t.code)
      [] t.tag = "Unlimited" -> None

TrInit ==
    /\ tr_wire \in {None} \cup {Some(n) : n \in U16}
    /\ transfers = [tag |-> "none"]
    /\ tr_out = None
    /\ xpc = "wire"

DeserializeTransfers ==
    /\ xpc = "wire"
    /\ transfers' = TransfersDeserialize(tr_wire)
    /\ xpc' = "decoded"
    /\ UNCHANGED <<tr_wire, tr_out>>
    /\ UNCHANGED <<transVars, rtVars, timeVars, colorVars>>
    /\ UNCHANGED <<locVars, lenVars, dateVars>>

SerializeTransfers ==
    /\ xpc = "decoded"
    /\ tr_out' = TransfersSerialize(transfers)
    /\ xpc' = "encoded"
    /\ UNCHANGED <<tr_wire, transfers>>
    /\ UNCHANGED <<transVars, rtVars, timeVars, colorVars>>
    /\ UNCHANGED <<locVars, lenVars, dateVars>>

TrNext == DeserializeTransfers \/ SerializeTransfers

InitTransfers ==
    TrInit /\ TransIdle /\ RtIdle /\ TimeIdle /\ ColorIdle
    /\ LocIdle /\ LenIdle /\ DateIdle

SpecTransfers == InitTransfers /\ [][TrNext]_vars

(***************************************************************************)
(* Texts                                                                   *)
(***************************************************************************)
\* A text is a sequence of characters; a character is a one-character
\* string, except NonAscii, which stands for U+00E9 (two bytes in UTF-8).
NonAscii == "U+00E9"

\* char::len_utf8
Utf8Len(c) == IF c = NonAscii THEN 2 ELSE 1

HexLower  == <<"0", "1", "2", "3", "4", "5", "6", "7", "8", "9",
               "a", "b", "c", "d", "e", "f">>
HexUpper  == <<"0", "1", "2", "3", "4", "5", "6", "7", "8", "9",
               "A", "B", "C", "D", "E", "F">>

Range(q) == {q[i] : i \in 1..Len(q)}
IndexOf(q, c) == CHOOSE i \in 1..Len(q) : q[i] = c

\* char::to_digit(radix): the digit value, or -1 for None.
ToDigit(c, radix) ==
    IF c \in Range(HexLower) /\ IndexOf(HexLower, c) <= radix
    THEN IndexOf(HexLower, c) - 1
    ELSE IF c \in Range(HexUpper) /\ IndexOf(HexUpper, c) <= radix
         THEN IndexOf(HexUpper, c) - 1
         ELSE -1

\* char::is_whitespace, on the characters used here.
IsWhitespace(c) == c = " "

RECURSIVE TrimStart(_)
\* str::trim_start
TrimStart(s) ==
    IF s # <<>> /\ IsWhitespace(Head(s)) THEN TrimStart(Tail(s)) ELSE s

RECURSIVE SplitFrom(_, _, _)
SplitFrom(s, sep, cur) ==
    IF s = <<>> THEN <<cur>>
    ELSE IF Head(s) = sep THEN <<cur>> \o SplitFrom(Tail(s), sep, <<>>)
    ELSE SplitFrom(Tail(s), sep, Append(cur, Head(s)))

\* str::split(sep).collect::<Vec<&str>>()
Split(s, sep) == SplitFrom(s, sep, <<>>)

(***************************************************************************)
(* u32 arithmetic.  A u32 is a pair <<hi, lo>> of 16-bit halves, so that   *)
(* the 32-bit width and its overflow are exact.                            *)
(***************************************************************************)
Half == 65536

\* x * k for a small constant k: the wrapped product and the overflow flag
\* (u32::overflowing_mul).
MulU32(x, k) ==
    LET p  == x[2] * k
        hi == x[1] * k + (p \div Half)
    IN [v |-> <<hi % Half, p % Half>>, overflow |-> hi >= Half]

\* x + y: the wrapped sum and the overflow flag (u32::overflowing_add).
AddU32(x, y) ==
    LET l  == x[2] + y[2]
        hi == x[1] + y[1] + (l \div Half)
    IN [v |-> <<hi % Half, l % Half>>, overflow |-> hi >= Half]

RECURSIVE ParseDigits(_, _)
\* The digit loop of u32::from_str_radix(.., 10): checked_mul(10) and
\* checked_add(digit); an invalid digit or an overflow is an Err.
ParseDigits(s, acc) ==
    IF s = <<>> THEN [ok |-> TRUE, v |-> acc]
    ELSE LET d == ToDigit(Head(s), 10) IN
         IF d < 0 THEN [ok |-> FALSE, v |-> <<0, 0>>]
         ELSE LET m == MulU32(acc, 10)
                  a == AddU32(m.v, <<0, d>>)
              IN IF m.overflow \/ a.overflow
                 THEN [ok |-> FALSE, v |-> <<0, 0>>]
                 ELSE ParseDigits(Tail(s), a.v)

\* str::parse::<u32>(): empty is an Err, one leading '+' is accepted, a
\* sign alone is an Err.
ParseU32(s) ==
    IF s = <<>> THEN [ok |-> FALSE, v |-> <<0, 0>>]
    ELSE IF Head(s) = "+"
         THEN (IF Tail(s) = <<>> THEN [ok |-> FALSE, v |-> <<0, 0>>]
               ELSE ParseDigits(Tail(s), <<0, 0>>))
         ELSE ParseDigits(s, <<0, 0>>)

(***************************************************************************)
(* parse_time                                                              *)
(***************************************************************************)
OkTime(v) == [kind |-> "Ok", value |-> v]
InvalidTime(s) == [kind |-> "InvalidTime", text |-> s]
Panic == [kind |-> "panic"]
ParseIntError == [kind |-> "ParseIntError"]

\* Ok(&v[0].parse()? * 3600u32 + &v[1].parse()? * 60u32 + &v[2].parse()?)
\* evaluated left to right.  An arithmetic overflow panics in a build with
\* overflow checks and wraps in a build without them.
parse_time_impl(v, build) ==
    LET h == ParseU32(v[1]) IN
    IF ~h.ok THEN ParseIntError ELSE
    LET hs == MulU32(h.v, 3600) IN
    IF hs.overflow /\ build = "checked" THEN Panic ELSE
    LET m == ParseU32(v[2]) IN
    IF ~m.ok THEN ParseIntError ELSE
    LET ms == MulU32(m.v, 60) IN
    IF ms.overflow /\ build = "checked" THEN Panic ELSE
    LET hm == AddU32(hs.v, ms.v) IN
    IF hm.overflow /\ build = "checked" THEN Panic ELSE
    LET sec == ParseU32(v[3]) IN
    IF ~sec.ok THEN ParseIntError ELSE
    LET total == AddU32(hm.v, sec.v) IN
    IF total.overflow /\ build = "checked" THEN Panic ELSE
    OkTime(total.v)

parse_time(s, build) ==
    LET v == Split(TrimStart(s), ":") IN
    IF Len(v) # 3 THEN InvalidTime(s)
    ELSE LET r == parse_time_impl(v, build) IN
         IF r = ParseIntError THEN InvalidTime(s) ELSE r

\* Bounds of the inputs of parse_time.
MaxLead == 1
MaxParts == 4

\* The colon-separated parts the input texts are made of.
TimeParts ==
    { <<>>,
      <<"0">>,
      <<"0", "7">>,
      <<"5", "9">>,
      <<"2", "5">>,
      <<"+", "5">>,
      <<"-", "1">>,
      <<"x">>,
      <<" ", "1">>,
      <<"1", "1", "9", "3", "0", "4", "6">>,
      <<"1", "1", "9", "3", "0", "4", "7">>,
      <<"7", "1", "5", "8", "2", "7", "8", "9">>,
      <<"4", "2", "9", "4", "9", "6", "7", "2", "9", "5">>,
      <<"4", "2", "9", "4", "9", "6", "7", "2", "9", "6">> }

RECURSIVE Join(_, _)
Join(parts, sep) ==
    IF Len(parts) = 1 THEN parts[1]
    ELSE parts[1] \o <<sep>> \o Join(Tail(parts), sep)

Spaces(n) == [i \in 1..n |-> " "]

TimeInit ==
    /\ \E lead \in 0..MaxLead, n \in 1..MaxParts :
         \E parts \in [1..n -> TimeParts] :
            time_text = Spaces(lead) \o Join(parts, ":")
    /\ time_build \in {"checked", "wrapping"}
    /\ time_result = [kind |-> "none"]
    /\ mpc = "call"

ParseTime ==
    /\ mpc = "call"
    /\ time_result' = parse_time(time_text, time_build)
    /\ mpc' = "done"
    /\ UNCHANGED <<time_text, time_build>>
    /\ UNCHANGED <<transVars, rtVars, trVars, colorVars>>
    /\ UNCHANGED <<locVars, lenVars, dateVars>>

TimeNext == ParseTime

InitTime ==
    TimeInit /\ TransIdle /\ RtIdle /\ TrIdle /\ ColorIdle
    /\ LocIdle /\ LenIdle /\ DateIdle

SpecTime == InitTime /\ [][TimeNext]_vars

(***************************************************************************)
(* parse_color and serialize_optional_color                                *)
(***************************************************************************)
RECURSIVE ByteLen(_)
\* str::len: the length in bytes.
ByteLen(s) == IF s = <<>> THEN 0 ELSE Utf8Len(Head(s)) + ByteLen(Tail(s))

\* Byte offset at which the i-th character of s starts (i = Len(s)+1: the end).
ByteOffset(s, i) == ByteLen(SubSeq(s, 1, i - 1))

\* str::is_char_boundary
IsCharBoundary(s, b) == \E i \in 1..(Len(s) + 1) : ByteOffset(s, i) = b

CharAt(s, b) == CHOOSE i \in 1..(Len(s) + 1) : ByteOffset(s, i) = b

\* &s[a..b]: the slice between two byte offsets; indexing off a character
\* boundary panics.
ByteSlice(s, a, b) ==
    IF IsCharBoundary(s, a) /\ IsCharBoundary(s, b)
    THEN [ok |-> TRUE, text |-> SubSeq(s, CharAt(s, a), CharAt(s, b) - 1)]
    ELSE [ok |-> FALSE, text |-> <<>>]

RECURSIVE ParseHexDigits(_, _)
\* The digit loop of u8::from_str_radix(.., 16).
ParseHexDigits(s, acc) ==
    IF s = <<>> THEN acc
    ELSE LET d == ToDigit(Head(s), 16) IN
         IF d < 0 \/ acc < 0 \/ acc * 16 + d > 255 THEN -1
         ELSE ParseHexDigits(Tail(s), acc * 16 + d)

\* u8::from_str_radix(s, 16): the value, or -1 for an Err.  One leading
\* '+' is accepted; a '-' is an invalid digit for an unsigned type.
U8FromStrRadix16(s) ==
    IF s = <<>> THEN -1
    ELSE IF Head(s) = "+"
         THEN (IF Tail(s) = <<>> THEN -1 ELSE ParseHexDigits(Tail(s), 0))
         ELSE ParseHexDigits(s, 0)

OkColor(r, g, b) == [kind |-> "Ok", rgb |-> <<r, g, b>>]
InvalidColor(s) == [kind |-> "InvalidColor", text |-> s]

\* One channel of parse_color: slice, then from_str_radix(.., 16).
\* -2 stands for the panic of the slice, -1 for the parse error.
Channel(s, a, b) ==
    LET sl == ByteSlice(s, a, b) IN
    IF ~sl.ok THEN -2 ELSE U8FromStrRadix16(sl.text)

parse_color(s) ==
    IF ByteLen(s) # 6 THEN InvalidColor(s) ELSE
    LET r == Channel(s, 0, 2) IN
    IF r = -2 THEN Panic ELSE IF r = -1 THEN InvalidColor(s) ELSE
    LET g == Channel(s, 2, 4) IN
    IF g = -2 THEN Panic ELSE IF g = -1 THEN InvalidColor(s) ELSE
    LET b == Channel(s, 4, 6) IN
    IF b = -2 THEN Panic ELSE IF b = -1 THEN InvalidColor(s) ELSE
    OkColor(r, g, b)

\* Mutant of FormatHex02: "{:X}", without the zero padding.
FormatHexUnpadded(v) ==
    IF v < 16 THEN <<HexUpper[v + 1]>>
    ELSE <<HexUpper[(v \div 16) + 1], HexUpper[(v % 16) + 1]>>

\* format!("{:02X}", v) for a u8.
FormatHex02(v) == <<HexUpper[(v \div 16) + 1], HexUpper[(v % 16) + 1]>>

\* match color { None => serialize_none(), Some(RGB8 {r, g, b}) => .. }
serialize_optional_color(c) ==
    IF c = None THEN None
    ELSE Some(FormatHex02(c[1][1]) \o FormatHex02(c[1][2]) \o FormatHex02(c[1][3]))

\* Bound of the length (in characters) of the input texts of parse_color.
MaxColorLen == 6

\* The characters the input texts are made of.
ColorChars == {"0", "9", "a", "F", "+", "-", "g", NonAscii}

\* Channel values of the colors that are serialized without being parsed:
\* every value of the red channel, these for green and blue.
ChannelSamples == {0, 9, 15, 16, 171, 255}

ColorInit ==
    /\ \/ /\ cpc = "call"
          /\ \E n \in 0..MaxColorLen : color_text \in [1..n -> ColorChars]
          /\ color = None
       \/ /\ cpc = "value"
          /\ color_text = <<>>
          /\ \/ color = None
             \/ \E r \in 0..255, g \in ChannelSamples, b \in ChannelSamples :
                   color = Some(<<r, g, b>>)
    /\ color_result = [kind |-> "none"]
    /\ color_out = None

\* parse_color(s).map(Some), as de_with_optional_color calls it.
ParseColor ==
    /\ cpc = "call"
    /\ color_result' = parse_color(color_text)
    /\ color' = IF color_result'.kind = "Ok" THEN Some(color_result'.rgb) ELSE None
    /\ cpc' = "parsed"
    /\ UNCHANGED <<color_text, color_out>>
    /\ UNCHANGED <<transVars, rtVars, trVars, timeVars>>
    /\ UNCHANGED <<locVars, lenVars, dateVars>>

SerializeColor ==
    /\ \/ cpc = "value"
       \/ cpc = "parsed" /\ color_result.kind = "Ok"
    /\ color_out' = serialize_optional_color(color)
    /\ cpc' = "encoded"
    /\ UNCHANGED <<color_text, color, color_result>>
    /\ UNCHANGED <<transVars, rtVars, trVars, timeVars>>
    /\ UNCHANGED <<locVars, lenVars, dateVars>>

ColorNext == ParseColor \/ SerializeColor

InitColor ==
    ColorInit /\ TransIdle /\ RtIdle /\ TrIdle /\ TimeIdle
    /\ LocIdle /\ LenIdle /\ DateIdle

SpecColor == InitColor /\ [][ColorNext]_vars

(***************************************************************************)
(* Translatable::translate for Stop, StopTime, Route and Trip              *)
(*                                                                         *)
(* A text of an entity is a tuple of strings (<<"text", id, member>>), a   *)
(* translated text is <<"tr", table, field, language, record id>>.  An     *)
(* Arc<Stop> is a handle: an index into heap; Arc::new appends to heap.    *)
(***************************************************************************)
\* TranslationByIdKey { table_name, field_name, language, record_id,
\* record_sub_id }
ByIdKey(table, field, lang, id, sub) == <<table, field, lang, id, sub>>

\* Gtfs::translate(table, field, language, record_id, record_sub_id,
\* default): the entry of the index under the id key, else the default.
GtfsTranslate(gtfs, table, field, lang, id, sub, default) ==
    LET k == ByIdKey(table, field, lang, id, sub) IN
    IF k \in DOMAIN gtfs THEN gtfs[k] ELSE default

\* Option::map
OptMap(o, mapped) == IF o = None THEN None ELSE Some(mapped)

\* impl Translatable for Stop
StopTranslate(self, gtfs, lang) ==
    [id |-> self.id,
     code |-> OptMap(self.code,
            LET code == self.code[1]
            IN GtfsTranslate(gtfs, "stops", "stop_code", lang,
                                            self.id, None, code)),
     name |-> GtfsTranslate(gtfs, "stops", "stop_name", lang, self.id, None,
                            self.name),
     description |-> GtfsTranslate(gtfs, "stops", "stop_desc", lang, self.id,
                                   None, self.description),
     location_type |-> self.location_type,
     parent_station |-> self.parent_station,
     zone_id |-> self.zone_id,
     url |-> OptMap(self.code,
            LET url == self.code[1]
            IN GtfsTranslate(gtfs, "stops", "stop_url", lang,
                                          self.id, None, url)),
     longitude |-> self.longitude,
     latitude |-> self.latitude,
     timezone |-> self.timezone,
     wheelchair_boarding |-> self.wheelchair_boarding,
     level_id |-> self.level_id,
     platform_code |->
        OptMap(self.code,
            LET platform_code == self.code[1]
            IN GtfsTranslate(gtfs, "stops", "platform_code", lang, self.id,
                             None, platform_code))]

\* The gtfs.translate calls Stop::translate makes: <<key, default>>.
StopCalls(self, lang) ==
    {<<ByIdKey("stops", "stop_name", lang, self.id, None), self.name>>,
     <<ByIdKey("stops", "stop_desc", lang, self.id, None), self.description>>}
    \cup (IF self.code = None THEN {}
          ELSE {<<ByIdKey("stops", f, lang, self.id, None), self.code[1]>> :
                   f \in {"stop_code", "stop_url", "platform_code"}})

\* Mutant of StopTimeTranslate: the shared Arc is cloned instead of a new
\* one being made.
StopTimeTranslateSharing(self, gtfs, lang, h) ==
    [arrival_time |-> self.arrival_time,
     stop |-> self.stop,
     departure_time |-> self.departure_time,
     pickup_type |-> self.pickup_type,
     drop_off_type |-> self.drop_off_type,
     stop_sequence |-> self.stop_sequence,
     stop_headsign |-> self.stop_headsign,
     continuous_pickup |-> self.continuous_pickup,
     continuous_drop_off |-> self.continuous_drop_off,
     shape_dist_traveled |-> self.shape_dist_traveled,
     timepoint |-> self.timepoint]

\* Mutant of StopTimeTranslate: the headsign is translated under the
\* stop_times table.
StopTimeTranslateHeadsign(self, gtfs, lang, h) ==
    [arrival_time |-> self.arrival_time,
     stop |-> h,
     departure_time |-> self.departure_time,
     pickup_type |-> self.pickup_type,
     drop_off_type |-> self.drop_off_type,
     stop_sequence |-> self.stop_sequence,
     stop_headsign |->
        OptMap(self.stop_headsign,
            LET t == self.stop_headsign[1]
            IN GtfsTranslate(gtfs, "stop_times", "stop_headsign", lang,
                                  "T1", None, t)),
     continuous_pickup |-> self.continuous_pickup,
     continuous_drop_off |-> self.continuous_drop_off,
     shape_dist_traveled |-> self.shape_dist_traveled,
     timepoint |-> self.timepoint]

\* impl Translatable for StopTime; h is the handle Arc::new returns for
\* the translated Stop.
StopTimeTranslate(self, gtfs, lang, h) ==
    [arrival_time |-> self.arrival_time,
     stop |-> h,
     departure_time |-> self.departure_time,
     pickup_type |-> self.pickup_type,
     drop_off_type |-> self.drop_off_type,
     stop_sequence |-> self.stop_sequence,
     stop_headsign |-> self.stop_headsign,
     continuous_pickup |-> self.continuous_pickup,
     continuous_drop_off |-> self.continuous_drop_off,
     shape_dist_traveled |-> self.shape_dist_traveled,
     timepoint |-> self.timepoint]

\* impl Translatable for Route
RouteTranslate(self, gtfs, lang) ==
    [id |-> self.id,
     short_name |-> GtfsTranslate(gtfs, "routes", "route_short_name", lang,
                                  self.id, None, self.short_name),
     long_name |-> GtfsTranslate(gtfs, "routes", "route_long_name", lang,
                                 self.id, None, self.long_name),
     desc |-> OptMap(self.desc,
            LET desc == self.desc[1]
            IN GtfsTranslate(gtfs, "routes", "route_desc", lang,
                                            self.id, None, desc)),
     route_type |-> self.route_type,
     url |-> OptMap(self.url,
            LET url == self.url[1]
            IN GtfsTranslate(gtfs, "routes", "route_url", lang,
                                          self.id, None, url)),
     agency_id |-> self.agency_id,
     route_order |-> self.route_order,
     route_color |-> self.route_color,
     route_text_color |-> self.route_text_color,
     continuous_pickup |-> self.continuous_pickup,
     continuous_drop_off |-> self.continuous_drop_off]

RouteCalls(self, lang) ==
    {<<ByIdKey("routes", "route_short_name", lang, self.id, None), self.short_name>>,
     <<ByIdKey("routes", "route_long_name", lang, self.id, None), self.long_name>>}
    \cup (IF self.desc = None THEN {}
          ELSE {<<ByIdKey("routes", "route_desc", lang, self.id, None), self.desc[1]>>})
    \cup (IF self.url = None THEN {}
          ELSE {<<ByIdKey("routes", "route_url", lang, self.id, None), self.url[1]>>})

\* impl Translatable for Trip; base is the number of Arc<Stop> allocated
\* before the call, the i-th StopTime gets the handle base + i.
TripTranslate(self, gtfs, lang, base) ==
    [id |-> self.id,
     service_id |-> self.service_id,
     route_id |-> self.route_id,
     stop_times |-> [i \in 1..Len(self.stop_times) |->
                        StopTimeTranslate(self.stop_times[i], gtfs, lang, base + i)],
     shape_id |-> self.shape_id,
     trip_headsign |->
        OptMap(self.trip_headsign,
            LET headsign == self.trip_headsign[1]
            IN GtfsTranslate(gtfs, "trips", "trip_headsign", lang,
                                         self.id, None, headsign)),
     trip_short_name |->
        OptMap(self.trip_short_name,
            LET short_name == self.trip_short_name[1]
            IN GtfsTranslate(gtfs, "trips", "trip_short_name",
                                           lang, self.id, None, short_name)),
     direction_id |-> self.direction_id,
     block_id |-> self.block_id,
     wheelchair_accessible |-> self.wheelchair_accessible,
     bikes_allowed |-> self.bikes_allowed]

TripCalls(self, lang, hp) ==
    (IF self.trip_headsign = None THEN {}
     ELSE {<<ByIdKey("trips", "trip_headsign", lang, self.id, None), self.trip_headsign[1]>>})
    \cup (IF self.trip_short_name = None THEN {}
          ELSE {<<ByIdKey("trips", "trip_short_name", lang, self.id, None),
                  self.trip_short_name[1]>>})
    \cup UNION {StopCalls(hp[self.stop_times[i].stop], lang) :
                   i \in 1..Len(self.stop_times)}

\* The Stops Arc::new allocates while the StopTimes of a Trip are mapped.
NewStops(stop_times, hp, gtfs, lang) ==
    [i \in 1..Len(stop_times) |-> StopTranslate(hp[stop_times[i].stop], gtfs, lang)]

\* Bounds of the localization inputs.
MaxCalls == 2
MaxStopTimes == 2

Languages == {"fr", "nl"}

Text(id, member) == <<"text", id, member>>
TrText(k) == <<"tr", k[1], k[2], k[3], k[4]>>

StopOf(id, hasCode, hasUrl, hasPlatform) ==
    [id |-> id,
     code |-> IF hasCode THEN Some(Text(id, "code")) ELSE None,
     name |-> Text(id, "name"),
     description |-> Text(id, "description"),
     location_type |-> "StopArea",
     parent_station |-> Some(Text(id, "parent_station")),
     zone_id |-> None,
     url |-> IF hasUrl THEN Some(Text(id, "url")) ELSE None,
     longitude |-> Some(4),
     latitude |-> Some(51),
     timezone |-> Some(Text(id, "timezone")),
     wheelchair_boarding |-> "Available",
     level_id |-> Some(Text(id, "level_id")),
     platform_code |-> IF hasPlatform THEN Some(Text(id, "platform_code")) ELSE None]

RouteOf(id, hasDesc, hasUrl) ==
    [id |-> id,
     short_name |-> Text(id, "short_name"),
     long_name |-> Text(id, "long_name"),
     desc |-> IF hasDesc THEN Some(Text(id, "desc")) ELSE None,
     route_type |-> Named("Rail"),
     url |-> IF hasUrl THEN Some(Text(id, "url")) ELSE None,
     agency_id |-> Some(Text(id, "agency_id")),
     route_order |-> None,
     route_color |-> Some(<<255, 136, 0>>),
     route_text_color |-> None,
     continuous_pickup |-> None,
     continuous_drop_off |-> Some("NotAvailable")]

\* The i-th StopTime of a trip, at the shared Stop h.
StopTimeOf(h, i) ==
    [arrival_time |-> Some(i * 600),
     stop |-> h,
     departure_time |-> IF i = 1 THEN None ELSE Some(i * 600 + 30),
     pickup_type |-> Some("Regular"),
     drop_off_type |-> None,
     stop_sequence |-> i * 10,
     stop_headsign |-> IF i % 2 = 1 THEN Some(Text("T1", "stop_headsign")) ELSE None,
     continuous_pickup |-> None,
     continuous_drop_off |-> Some("Continuous"),
     shape_dist_traveled |-> Some(i),
     timepoint |-> (i # 2)]

TripOf(id, hasHeadsign, hasShortName, hs) ==
    [id |-> id,
     service_id |-> Text(id, "service_id"),
     route_id |-> Text(id, "route_id"),
     stop_times |-> [i \in 1..Len(hs) |-> StopTimeOf(hs[i], i)],
     shape_id |-> None,
     trip_headsign |-> IF hasHeadsign THEN Some(Text(id, "trip_headsign")) ELSE None,
     trip_short_name |-> IF hasShortName THEN Some(Text(id, "trip_short_name")) ELSE None,
     direction_id |-> Some("Outbound"),
     block_id |-> Some(Text(id, "block_id")),
     wheelchair_accessible |-> None,
     bikes_allowed |-> Some("NoBikeInfo")]

\* The Stops the feed holds behind shared Arc<Stop> handles 1 and 2.
SharedStops ==
    <<StopOf("S1", TRUE, FALSE, TRUE), StopOf("S2", FALSE, TRUE, FALSE)>>

\* The keys the translation index may hold, by the kind of entity that is
\* translated; each family has keys of another language, another record,
\* another table or a sub id next to the ones the entity is looked up by.
StopKeys ==
    {ByIdKey("stops", f, "fr", "S1", None) :
        f \in {"stop_code", "stop_name", "stop_desc", "stop_url", "platform_code"}}
    \cup {ByIdKey("stops", "stop_name", "nl", "S1", None),
          ByIdKey("stops", "stop_name", "fr", "S2", None),
          ByIdKey("stops", "stop_url", "fr", "S1", Some("1"))}

RouteKeys ==
    {ByIdKey("routes", f, "fr", "R1", None) :
        f \in {"route_short_name", "route_long_name", "route_desc", "route_url"}}
    \cup {ByIdKey("routes", "route_desc", "fr", "R2", None),
          ByIdKey("routes", "route_url", "nl", "R1", None)}

TripKeys ==
    {ByIdKey("trips", "trip_headsign", "fr", "T1", None),
     ByIdKey("trips", "trip_short_name", "fr", "T1", None),
     ByIdKey("trips", "trip_headsign", "fr", "S1", None),
     ByIdKey("stop_times", "stop_headsign", "fr", "T1", None),
     ByIdKey("stop_times", "stop_headsign", "fr", "S1", None),
     ByIdKey("stops", "stop_name", "fr", "S1", None),
     ByIdKey("stops", "stop_url", "fr", "S1", None),
     ByIdKey("stops", "stop_name", "fr", "S2", None)}

IndexOver(K) == [k \in K |-> TrText(k)]

\* Sequences of shared handles of length 0..MaxStopTimes.
HandleSeqs == UNION {[1..n -> 1..Len(SharedStops)] : n \in 0..MaxStopTimes}

LocInit ==
    /\ heap = SharedStops
    /\ \/ \E K \in SUBSET StopKeys, c \in BOOLEAN, u \in BOOLEAN, p \in BOOLEAN :
             /\ index = IndexOver(K)
             /\ entity = [kind |-> "stop", value |-> StopOf("S1", c, u, p)]
       \/ \E K \in SUBSET RouteKeys, d \in BOOLEAN, u \in BOOLEAN :
             /\ index = IndexOver(K)
             /\ entity = [kind |-> "route", value |-> RouteOf("R1", d, u)]
       \/ \E K \in SUBSET TripKeys, h \in 1..Len(SharedStops) :
             /\ index = IndexOver(K)
             /\ entity = [kind |-> "stop_time", value |-> StopTimeOf(h, 1)]
       \/ \E K \in SUBSET TripKeys, a \in BOOLEAN, b \in BOOLEAN, hs \in HandleSeqs :
             /\ index = IndexOver(K)
             /\ entity = [kind |-> "trip", value |-> TripOf("T1", a, b, hs)]
    /\ language = ""
    /\ result = [kind |-> "none"]
    /\ lookups = {}
    /\ calls = 0

\* stop.translate(&gtfs, language)
TranslateStop ==
    /\ entity.kind = "stop"
    /\ calls < MaxCalls
    /\ \E lang \in Languages :
         /\ language' = lang
         /\ result' = [kind |-> "stop",
                       value |-> StopTranslate(entity.value, index, lang)]
         /\ lookups' = StopCalls(entity.value, lang)
    /\ calls' = calls + 1
    /\ UNCHANGED <<index, heap, entity>>
    /\ UNCHANGED <<transVars, rtVars, trVars, timeVars, colorVars>>
    /\ UNCHANGED <<lenVars, dateVars>>

\* route.translate(&gtfs, language)
TranslateRoute ==
    /\ entity.kind = "route"
    /\ calls < MaxCalls
    /\ \E lang \in Languages :
         /\ language' = lang
         /\ result' = [kind |-> "route",
                       value |-> RouteTranslate(entity.value, index, lang)]
         /\ lookups' = RouteCalls(entity.value, lang)
    /\ calls' = calls + 1
    /\ UNCHANGED <<index, heap, entity>>
    /\ UNCHANGED <<transVars, rtVars, trVars, timeVars, colorVars>>
    /\ UNCHANGED <<lenVars, dateVars>>

\* stop_time.translate(&gtfs, language): Arc::new of the translated Stop.
TranslateStopTime ==
    /\ entity.kind = "stop_time"
    /\ calls < MaxCalls
    /\ \E lang \in Languages :
         /\ language' = lang
         /\ heap' = Append(heap, StopTranslate(heap[entity.value.stop], index, lang))
         /\ result' = [kind |-> "stop_time",
                       value |-> StopTimeTranslate(entity.value, index, lang,
                                                   Len(heap) + 1)]
         /\ lookups' = StopCalls(heap[entity.value.stop], lang)
    /\ calls' = calls + 1
    /\ UNCHANGED <<index, entity>>
    /\ UNCHANGED <<transVars, rtVars, trVars, timeVars, colorVars>>
    /\ UNCHANGED <<lenVars, dateVars>>

\* trip.translate(&gtfs, language): every StopTime is translated in turn.
TranslateTrip ==
    /\ entity.kind = "trip"
    /\ calls < MaxCalls
    /\ \E lang \in Languages :
         /\ language' = lang
         /\ heap' = heap \o NewStops(entity.value.stop_times, heap, index, lang)
         /\ result' = [kind |-> "trip",
                       value |-> TripTranslate(entity.value, index, lang, Len(heap))]
         /\ lookups' = TripCalls(entity.value, lang, heap)
    /\ calls' = calls + 1
    /\ UNCHANGED <<index, entity>>
    /\ UNCHANGED <<transVars, rtVars, trVars, timeVars, colorVars>>
    /\ UNCHANGED <<lenVars, dateVars>>

LocNext == TranslateStop \/ TranslateRoute \/ TranslateStopTime \/ TranslateTrip

InitLocalize ==
    LocInit /\ TransIdle /\ RtIdle /\ TrIdle /\ TimeIdle /\ ColorIdle
    /\ LenIdle /\ DateIdle

SpecLocalize == InitLocalize /\ [][LocNext]_vars

(***************************************************************************)
(* Lenient enumerations: Stop.location_type, Stop.wheelchair_boarding and  *)
(* RawStopTime.pickup_type                                                 *)
(***************************************************************************)
OkValue(v) == [kind |-> "Ok", value |-> v]
DecodeError == [kind |-> "Err"]

\* The text of one character.
Chr(c) == <<c>>

\* impl Deserialize for LocationType: match s.as_str() { .. _ => StopPoint }
LocationTypeDeserialize(t) ==
    OkValue(IF t = Chr("1") THEN "StopArea"
            ELSE IF t = Chr("2") THEN "StationEntrance"
            ELSE IF t = Chr("3") THEN "GenericNode"
            ELSE IF t = Chr("4") THEN "BoardingArea"
            ELSE "StopPoint")

\* fn default_location_type()
default_location_type == "StopPoint"

\* #[serde(default = "default_location_type")] location_type: LocationType
DecodeLocationTypeMember(cell) ==
    IF cell = None THEN OkValue(default_location_type)
    ELSE LocationTypeDeserialize(cell[1])

\* #[derive(Deserialize)] enum Availability with #[serde(rename = "0" ..)]:
\* a text that names no variant is an unknown-variant error.
AvailabilityDeserialize(t) ==
    IF t = Chr("0") THEN OkValue("InformationNotAvailable")
    ELSE IF t = Chr("1") THEN OkValue("Available")
    ELSE IF t = Chr("2") THEN OkValue("NotAvailable")
    ELSE DecodeError

\* #[derive(Deserialize)] enum PickupDropOffType
PickupDropOffTypeDeserialize(t) ==
    IF t = Chr("0") THEN OkValue("Regular")
    ELSE IF t = Chr("1") THEN OkValue("NotAvailable")
    ELSE IF t = Chr("2") THEN OkValue("ArrangeByPhone")
    ELSE IF t = Chr("3") THEN OkValue("CoordinateWithDriver")
    ELSE DecodeError

\* Option::<T>::deserialize on a cell: an empty cell is None, any other
\* cell is Some of inner, the result of T::deserialize on the cell.
OptionDeserialize(t, inner) ==
    IF t = <<>> THEN OkValue(None)
    ELSE IF inner.kind = "Ok" THEN OkValue(Some(inner.value)) ELSE DecodeError

\* de_with_empty_default: Option::<T>::deserialize(de).map(|opt|
\* opt.unwrap_or_else(Default::default))
de_with_empty_default(t, inner, default) ==
    LET r == OptionDeserialize(t, inner) IN
    IF r.kind # "Ok" THEN r
    ELSE IF r.value = None THEN OkValue(default) ELSE OkValue(r.value[1])

\* #[serde(deserialize_with = "de_with_empty_default", default)]
\* wheelchair_boarding: Availability
DecodeWheelchairBoardingMember(cell) ==
    IF cell = None THEN OkValue("InformationNotAvailable")
    ELSE de_with_empty_default(cell[1], AvailabilityDeserialize(cell[1]),
                               "InformationNotAvailable")

\* pickup_type: Option<PickupDropOffType>
DecodePickupTypeMember(cell) ==
    IF cell = None THEN OkValue(None)
    ELSE OptionDeserialize(cell[1], PickupDropOffTypeDeserialize(cell[1]))

\* Bound of the length of the cells.
MaxCellLen == 2

LenientChars == {"0", "1", "2", "3", "4", "9", "a", " "}

LenientKinds == {"location_type", "wheelchair_boarding", "pickup_type"}

LenInit ==
    /\ len_kind \in LenientKinds
    /\ \/ len_cell = None
       \/ \E n \in 0..MaxCellLen :
             \E t \in [1..n -> LenientChars] : len_cell = Some(t)
    /\ len_result = [kind |-> "none"]
    /\ epc = "cell"

DeserializeLocationTypeMember ==
    /\ epc = "cell"
    /\ len_kind = "location_type"
    /\ len_result' = DecodeLocationTypeMember(len_cell)
    /\ epc' = "done"
    /\ UNCHANGED <<len_kind, len_cell>>
    /\ UNCHANGED <<transVars, rtVars, trVars, timeVars, colorVars>>
    /\ UNCHANGED <<locVars, dateVars>>

DeserializeWheelchairBoardingMember ==
    /\ epc = "cell"
    /\ len_kind = "wheelchair_boarding"
    /\ len_result' = DecodeWheelchairBoardingMember(len_cell)
    /\ epc' = "done"
    /\ UNCHANGED <<len_kind, len_cell>>
    /\ UNCHANGED <<transVars, rtVars, trVars, timeVars, colorVars>>
    /\ UNCHANGED <<locVars, dateVars>>

DeserializePickupTypeMember ==
    /\ epc = "cell"
    /\ len_kind = "pickup_type"
    /\ len_result' = DecodePickupTypeMember(len_cell)
    /\ epc' = "done"
    /\ UNCHANGED <<len_kind, len_cell>>
    /\ UNCHANGED <<transVars, rtVars, trVars, timeVars, colorVars>>
    /\ UNCHANGED <<locVars, dateVars>>

LenNext ==
    \/ DeserializeLocationTypeMember
    \/ DeserializeWheelchairBoardingMember
    \/ DeserializePickupTypeMember

InitLenient ==
    LenInit /\ TransIdle /\ RtIdle /\ TrIdle /\ TimeIdle /\ ColorIdle
    /\ LocIdle /\ DateIdle

SpecLenient == InitLenient /\ [][LenNext]_vars

(***************************************************************************)
(* Calendar dates: serialize_date and deserialize_date                     *)
(***************************************************************************)
RECURSIVE ToDecimal(_)
\* format!("{}", n) for a non-negative integer.
ToDecimal(n) ==
    IF n < 10 THEN <<HexLower[n + 1]>>
    ELSE Append(ToDecimal(n \div 10), HexLower[(n % 10) + 1])

\* format!("{}{}{}", date.year(), date.month(), date.day())
serialize_date(date) ==
    ToDecimal(date[1]) \o ToDecimal(date[2]) \o ToDecimal(date[3])

RECURSIVE TakeDigits(_, _)
\* The longest prefix of at most max decimal digits.
TakeDigits(s, max) ==
    IF max = 0 \/ s = <<>> \/ ToDigit(Head(s), 10) < 0 THEN <<>>
    ELSE <<Head(s)>> \o TakeDigits(Tail(s), max - 1)

RECURSIVE DecimalValue(_, _)
DecimalValue(s, acc) ==
    IF s = <<>> THEN acc ELSE DecimalValue(Tail(s), acc * 10 + ToDigit(Head(s), 10))

\* chrono's scan::number(s, 1, max): between 1 and max digits, greedy.
ScanNumber(s, max) ==
    LET ds == TakeDigits(s, max) IN
    [ok |-> ds # <<>>,
     v |-> DecimalValue(ds, 0),
     rest |-> SubSeq(s, Len(ds) + 1, Len(s))]

IsLeapYear(y) == (y % 4 = 0 /\ y % 100 # 0) \/ y % 400 = 0

DaysInMonth(y, m) ==
    IF m = 2 THEN (IF IsLeapYear(y) THEN 29 ELSE 28)
    ELSE IF m \in {4, 6, 9, 11} THEN 30 ELSE 31

IsValidDate(y, m, d) ==
    /\ m \in 1..12
    /\ d \in 1..DaysInMonth(y, m)

OkDate(y, m, d) == [kind |-> "Ok", date |-> <<y, m, d>>]

\* NaiveDate::parse_from_str(&s, "%Y%m%d"): an unsigned %Y reads 1 to 4
\* digits, %m and %d read 1 to 2 digits each; trailing text, a missing
\* number or an impossible date is an error.
deserialize_date(s) ==
    LET y == ScanNumber(s, 4) IN
    IF ~y.ok THEN DecodeError ELSE
    LET m == ScanNumber(y.rest, 2) IN
    IF ~m.ok THEN DecodeError ELSE
    LET d == ScanNumber(m.rest, 2) IN
    IF ~d.ok THEN DecodeError ELSE
    IF d.rest # <<>> THEN DecodeError ELSE
    IF ~IsValidDate(y.v, m.v, d.v) THEN DecodeError ELSE
    OkDate(y.v, m.v, d.v)

\* The years of the dates that are serialized.
DateYears == {800, 2023, 2024}

DateInit ==
    /\ \E y \in DateYears, m \in 1..12 :
          \E d \in 1..DaysInMonth(y, m) : date_in = <<y, m, d>>
    /\ date_text = <<>>
    /\ date_back = [kind |-> "none"]
    /\ dpc = "date"

SerializeDate ==
    /\ dpc = "date"
    /\ date_text' = serialize_date(date_in)
    /\ dpc' = "encoded"
    /\ UNCHANGED <<date_in, date_back>>
    /\ UNCHANGED <<transVars, rtVars, trVars, timeVars, colorVars>>
    /\ UNCHANGED <<locVars, lenVars>>

DeserializeDate ==
    /\ dpc = "encoded"
    /\ date_back' = deserialize_date(date_text)
    /\ dpc' = "decoded"
    /\ UNCHANGED <<date_in, date_text>>
    /\ UNCHANGED <<transVars, rtVars, trVars, timeVars, colorVars>>
    /\ UNCHANGED <<locVars, lenVars>>

DateNext == SerializeDate \/ DeserializeDate

InitDate ==
    DateInit /\ TransIdle /\ RtIdle /\ TrIdle /\ TimeIdle /\ ColorIdle
    /\ LocIdle /\ LenIdle

SpecDate == InitDate /\ [][DateNext]_vars

(***************************************************************************)
(* Properties of Translation::deserialize                                  *)
(***************************************************************************)
NmbsFields == {"lang", "trans_id", "translation"}

GenericFields ==
    {"table_name", "field_name", "language", "translation", "record_id",
     "record_sub_id", "field_value"}

\* The member value a cell stands for, written independently of the scan.
CellAsString(cell) == cell
CellAsOption(cell) == IF cell = "" THEN None ELSE Some(cell)

NmbsOf(r) ==
    [kind |-> "Nmbs", lang |-> CellAsString(r["lang"]),
     trans_id |-> CellAsString(r["trans_id"]),
     translation |-> CellAsString(r["translation"])]

GtfsOf(r) ==
    [kind |-> "Gtfs",
     table_name |-> CellAsString(r["table_name"]),
     field_name |-> CellAsString(r["field_name"]),
     language |-> CellAsString(r["language"]),
     translation |-> CellAsString(r["translation"]),
     record_id |-> CellAsOption(r["record_id"]),
     record_sub_id |-> CellAsOption(r["record_sub_id"]),
     field_value |-> CellAsOption(r["field_value"])]

\* C1: a record of translation columns that has lang, trans_id and
\* translation decodes to the Nmbs shape built from exactly those three
\* cells, whichever generic-shape columns it also has.
C1_NmbsPriority ==
    (/\ tpc = "done"
     /\ DOMAIN record \subseteq Fields
     /\ NmbsFields \subseteq DOMAIN record)
    => outcome = NmbsOf(record)

\* C1 witness: all nine columns present, decoded as Nmbs.
C1_Witness ==
    /\ tpc = "done"
    /\ DOMAIN record = Fields
    /\ outcome.kind = "Nmbs"

\* C2 (as claimed): a record without all of lang, trans_id, translation
\* that misses one of the seven generic columns ends in a returned decode
\* error, never in a panic and never in a Translation; with all seven
\* observed the generic shape is returned.
C2_MissingFieldIsError ==
    (/\ tpc = "done"
     /\ ~(NmbsFields \subseteq DOMAIN record))
    => IF GenericFields \subseteq DOMAIN record /\ DOMAIN record \subseteq Fields
       THEN outcome = GtfsOf(record)
       ELSE outcome.kind = "error"

\* The order-free outcome of a record: a function of the set of columns
\* and their cells only.
OutcomeOf(r) ==
    IF ~(DOMAIN r \subseteq Fields) THEN [kind |-> "error", unknown_field |-> UnknownName]
    ELSE IF NmbsFields \subseteq DOMAIN r THEN NmbsOf(r)
    ELSE IF GenericFields \subseteq DOMAIN r THEN GtfsOf(r)
    ELSE [kind |-> "panic"]

\* C3: whatever order the scan loop received the columns in, the decode of
\* a record ends with the one outcome determined by the record itself.
C3_OrderIndependent ==
    tpc = "done" => outcome = OutcomeOf(record)

\* C3 witness: a generic-shape result with an explicit-absent sub id,
\* reached after a scan of seven columns (5040 possible orders).
C3_Witness ==
    /\ tpc = "done"
    /\ outcome.kind = "Gtfs"
    /\ Cardinality(DOMAIN record) = 7
    /\ record["record_sub_id"] = ""
    /\ outcome.record_sub_id = None

(***************************************************************************)
(* Properties of RouteType                                                 *)
(***************************************************************************)
\* The classification table of the specification, rule by rule: the codes
\* and the hundreds each rule matches, and the variant it yields.
RouteRules ==
    << [codes |-> {0}, hundreds |-> {9},      variant |-> "Tramway"],
       [codes |-> {1}, hundreds |-> {4},      variant |-> "Subway"],
       [codes |-> {2}, hundreds |-> {1},      variant |-> "Rail"],
       [codes |-> {3}, hundreds |-> {7, 8},   variant |-> "Bus"],
       [codes |-> {4}, hundreds |-> {10, 12}, variant |-> "Ferry"],
       [codes |-> {5}, hundreds |-> {},       variant |-> "CableCar"],
       [codes |-> {6}, hundreds |-> {13},     variant |-> "Gondola"],
       [codes |-> {7}, hundreds |-> {14},     variant |-> "Funicular"],
       [codes |-> {},  hundreds |-> {2},      variant |-> "Coach"],
       [codes |-> {},  hundreds |-> {11},     variant |-> "Air"],
       [codes |-> {},  hundreds |-> {15},     variant |-> "Taxi"] >>

RuleMatches(k, code) ==
    \/ code \in RouteRules[k].codes
    \/ (code \div 100) \in RouteRules[k].hundreds

\* First matching rule wins; rule 12 is the fallback Other(code).
TableDecode(code) ==
    LET hits == {k \in 1..Len(RouteRules) : RuleMatches(k, code)} IN
    IF hits = {} THEN Other(code)
    ELSE Named(RouteRules[CHOOSE k \in hits : \A j \in hits : k <= j].variant)

\* C4: the decoded route type of every 16-bit code is the one the 12-rule
\* first-match table gives.
C4_RouteTypeTable ==
    rpc \in {"decoded", "encoded", "redecoded"} =>
        route_type = TableDecode(rt_wire)

\* C4 witness: an extended code classified by its hundreds (rule 10).
C4_Witness ==
    /\ rpc = "decoded"
    /\ rt_wire = 1100
    /\ route_type = Named("Air")

RouteVariants ==
    {"Tramway", "Subway", "Rail", "Bus", "Ferry", "CableCar", "Gondola",
     "Funicular", "Coach", "Air", "Taxi", "Other"}

Representative ==
    [Tramway |-> 0, Subway |-> 1, Rail |-> 2, Bus |-> 3, Ferry |-> 4,
     CableCar |-> 5, Gondola |-> 6, Funicular |-> 7, Coach |-> 200,
     Air |-> 1100, Taxi |-> 1500]

\* C5: every code decodes to one of the twelve variants; Other carries the
\* code itself and encodes back to it; a named variant encodes to its
\* representative code; Bus is produced only by the Bus rule.
C5_TotalLossless ==
    rpc \in {"decoded", "encoded", "redecoded"} =>
        /\ route_type.tag \in RouteVariants
        /\ route_type.tag = "Other" => route_type.code = rt_wire
        /\ route_type.tag = "Bus" =>
              (rt_wire = 3 \/ (rt_wire \div 100) \in {7, 8})
        /\ rpc \in {"encoded", "redecoded"} =>
              IF route_type.tag = "Other"
              THEN rt_out = rt_wire
              ELSE rt_out = Representative[route_type.tag]

\* C5 witness: an unlisted code went through decode and encode unchanged.
C5_Witness ==
    /\ rpc = "encoded"
    /\ rt_wire = 1900
    /\ route_type = Other(1900)
    /\ rt_out = 1900

(***************************************************************************)
(* Properties of Transfers                                                 *)
(***************************************************************************)
\* C6: decode maps absent to Unlimited, 0, 1, 2 to the three named counts
\* and any other integer n to Other(n); encoding the decoded value gives
\* back the wire value, absent or number.
C6_TransfersRoundTrip ==
    /\ xpc \in {"decoded", "encoded"} =>
          transfers =
             (CASE tr_wire = None -> Named("Unlimited")
                [] tr_wire = Some(0) -> Named("NoTransfer")
                [] tr_wire = Some(1) -> Named("UniqueTransfer")
                [] tr_wire = Some(2) -> Named("TwoTransfers")
                [] OTHER -> Other(tr_wire[1]))
    /\ xpc = "encoded" => tr_out = tr_wire

\* C6 witness: an absent wire value came back absent after the round trip.
C6_Witness ==
    /\ xpc = "encoded"
    /\ tr_wire = None
    /\ transfers = Named("Unlimited")
    /\ tr_out = None

(***************************************************************************)
(* Properties of parse_time                                                *)
(***************************************************************************)
\* The exact value of h*3600 + m*60 + s for three u32, as a pair whose
\* high part is not limited to 16 bits.
ExactSeconds(h, m, sec) ==
    LET l  == h[2] * 3600 + m[2] * 60 + sec[2]
        hi == h[1] * 3600 + m[1] * 60 + sec[1] + (l \div Half)
    IN <<hi, l % Half>>

ThreeNumericParts(s) ==
    LET v == Split(s, ":") IN
    /\ Len(v) = 3
    /\ \A i \in 1..3 : ParseU32(v[i]).ok

ExactOf(s) ==
    LET v == Split(s, ":") IN
    ExactSeconds(ParseU32(v[1]).v, ParseU32(v[2]).v, ParseU32(v[3]).v)

\* C7 (as claimed): the input is accepted exactly when it splits on ':'
\* into three parts that each parse as an unsigned integer, the result is
\* then hours*3600 + minutes*60 + seconds, and every other input yields
\* InvalidTime carrying the input text.
C7_ParseTimeExact ==
    mpc = "done" =>
        IF ThreeNumericParts(time_text)
        THEN time_result = OkTime(ExactOf(time_text))
        ELSE time_result = InvalidTime(time_text)

\* C8 (as claimed): for three numeric parts the result is the exact sum
\* also beyond the 32-bit range, with no wrap-around and no abnormal
\* termination.
C8_HoursUnbounded ==
    (mpc = "done" /\ ThreeNumericParts(time_text))
    => time_result = OkTime(ExactOf(time_text))

(***************************************************************************)
(* Properties of parse_color and serialize_optional_color                  *)
(***************************************************************************)
HexChars == Range(HexLower) \cup Range(HexUpper)

\* A text of exactly six hexadecimal characters.
IsSixHex(s) == Len(s) = 6 /\ \A i \in 1..6 : s[i] \in HexChars

HexValue(c) ==
    IF c \in Range(HexLower) THEN IndexOf(HexLower, c) - 1
    ELSE IndexOf(HexUpper, c) - 1

PairValue(s, i) == HexValue(s[i]) * 16 + HexValue(s[i + 1])

\* char::to_ascii_uppercase on the characters of a hexadecimal text.
UpperChar(c) == IF c \in Range(HexLower) THEN HexUpper[IndexOf(HexLower, c)] ELSE c
UpperText(s) == [i \in 1..Len(s) |-> UpperChar(s[i])]

\* C9 (as claimed): a text is accepted exactly when it consists of six
\* hexadecimal characters, with (r, g, b) from the three pairs; every other
\* text yields InvalidColor, never a color and never a panic.
C9_ColorAcceptsExactlySixHex ==
    cpc \in {"parsed", "encoded"} /\ color_result.kind # "none" =>
        IF IsSixHex(color_text)
        THEN color_result =
                OkColor(PairValue(color_text, 1), PairValue(color_text, 3),
                        PairValue(color_text, 5))
        ELSE color_result = InvalidColor(color_text)

\* C10: encoding the decoded value of a six-hex-digit text gives the text
\* in upper case, and every encoded color is six uppercase hex digits.
C10_ColorRoundTrip ==
    cpc = "encoded" =>
        /\ (color_result.kind = "Ok" /\ IsSixHex(color_text)) =>
              color_out = Some(UpperText(color_text))
        /\ color # None =>
              /\ color_out # None
              /\ Len(color_out[1]) = 6
              /\ \A i \in 1..6 : color_out[1][i] \in Range(HexUpper)

\* C10 witness: a text with lower-case digits and a channel below 0x10
\* came back in upper case.
C10_Witness ==
    /\ cpc = "encoded"
    /\ color_text = <<"0", "a", "F", "9", "a", "a">>
    /\ color_out = Some(<<"0", "A", "F", "9", "A", "A">>)

\* C18: the code a variant is written as reads back as that variant, for
\* the eleven named variants and for Other; so normalization is idempotent:
\* decode(encode(decode(c))) = decode(c) for every 16-bit code c.
C18_NormalizationIdempotent ==
    rpc = "redecoded" =>
        /\ rt_again = route_type
        /\ route_type.tag # "Other" =>
              RouteTypeDeserialize(Representative[route_type.tag]) = route_type

\* C18 witness: code 1150 was normalized to 1100 and read back as Air.
C18_Witness ==
    /\ rpc = "redecoded"
    /\ rt_wire = 1150
    /\ rt_out = 1100
    /\ rt_again = Named("Air")

(***************************************************************************)
(* Properties of Translatable::translate                                   *)
(***************************************************************************)
\* The index has no entry for the record id of the Stop table.
NoCoverage(table, id) ==
    \A k \in DOMAIN index : ~(k[1] = table /\ k[4] = id)

\* C11 (as claimed): with no index entry matching the Stop, translate gives
\* a Stop with the same id and every field equal to the field of the source.
C11_NoCoverageIdentity ==
    (result.kind = "stop" /\ NoCoverage("stops", entity.value.id))
    => result.value = entity.value

\* The optional text members that are translated, by kind of entity, with
\* the table and field name each is looked up under.
OptionalTextMembers ==
    [stop |-> {<<"code", "stops", "stop_code">>,
               <<"url", "stops", "stop_url">>,
               <<"platform_code", "stops", "platform_code">>},
     route |-> {<<"desc", "routes", "route_desc">>,
                <<"url", "routes", "route_url">>},
     trip |-> {<<"trip_headsign", "trips", "trip_headsign">>,
               <<"trip_short_name", "trips", "trip_short_name">>}]

RequiredTextMembers ==
    [stop |-> {<<"name", "stops", "stop_name">>,
               <<"description", "stops", "stop_desc">>},
     route |-> {<<"short_name", "routes", "route_short_name">>,
                <<"long_name", "routes", "route_long_name">>},
     trip |-> {}]

\* C12 (as claimed): each optional text field of the result is present
\* exactly when the same field of the source is, and an absent field of
\* the source causes no lookup under that field's name.
C12_NoFieldOmittedOrInvented ==
    result.kind \in {"stop", "route", "trip"} =>
        \A m \in OptionalTextMembers[result.kind] :
            /\ (result.value[m[1]] = None) <=> (entity.value[m[1]] = None)
            /\ entity.value[m[1]] = None =>
                  ~\E c \in lookups :
                       /\ c[1][1] = m[2]
                       /\ c[1][2] = m[3]
                       /\ c[1][4] = entity.value.id

StopTimeMembersCopied ==
    {"arrival_time", "departure_time", "pickup_type", "drop_off_type",
     "stop_sequence", "stop_headsign", "continuous_pickup",
     "continuous_drop_off", "shape_dist_traveled", "timepoint"}

\* C13: a translated Trip has as many StopTimes as the source, in the same
\* order; the i-th equals the i-th of the source in every member but stop,
\* headsign included, and its stop is the translation of the source's stop.
C13_StopTimesPointwise ==
    result.kind = "trip" =>
        /\ Len(result.value.stop_times) = Len(entity.value.stop_times)
        /\ \A i \in 1..Len(entity.value.stop_times) :
              LET r == result.value.stop_times[i]
                  o == entity.value.stop_times[i]
              IN /\ \A f \in StopTimeMembersCopied : r[f] = o[f]
                 /\ r.stop \in 1..Len(heap)
                 /\ heap[r.stop] = StopTranslate(heap[o.stop], index, language)

\* C13 witness: two StopTimes at two distinct Stops, the first with a
\* headsign the index has a stop_times entry for; the headsign is unchanged
\* and the first Stop's name is translated.
C13_Witness ==
    /\ result.kind = "trip"
    /\ language = "fr"
    /\ Len(entity.value.stop_times) = 2
    /\ entity.value.stop_times[1].stop = 1
    /\ entity.value.stop_times[2].stop = 2
    /\ ByIdKey("stop_times", "stop_headsign", "fr", "T1", None) \in DOMAIN index
    /\ ByIdKey("stops", "stop_name", "fr", "S1", None) \in DOMAIN index
    /\ result.value.stop_times[1].stop_headsign = Some(Text("T1", "stop_headsign"))
    /\ heap[result.value.stop_times[1].stop].name # heap[1].name
    /\ heap[result.value.stop_times[2].stop].id = "S2"

\* The Arc<Stop> handles an entity holds.
Handles(e) ==
    IF e.kind = "trip"
    THEN {e.value.stop_times[i].stop : i \in 1..Len(e.value.stop_times)}
    ELSE IF e.kind = "stop_time" THEN {e.value.stop}
    ELSE {}

HandleCount(e) ==
    IF e.kind = "trip" THEN Len(e.value.stop_times)
    ELSE IF e.kind = "stop_time" THEN 1
    ELSE 0

C14_Step ==
    /\ index' = index
    /\ entity' = entity
    /\ Len(heap') >= Len(heap)
    /\ \A h \in 1..Len(heap) : heap'[h] = heap[h]
    /\ calls' # calls =>
          /\ \A h \in Handles(result') : h \notin 1..Len(heap)
          /\ Handles(result') \cap Handles(entity) = {}
          /\ Cardinality(Handles(result')) = HandleCount(result')

\* C14: no translate call changes the index, the source entity or a Stop
\* that already exists; every Stop handle of a result is created by the
\* call, one per StopTime, and is none of the source's handles.
C14_FreshAndNonMutating == [][C14_Step]_vars

\* C14 witness: a second call on a Trip whose two StopTimes share one Stop
\* returned two new, distinct handles.
C14_Witness ==
    /\ result.kind = "trip"
    /\ calls = 2
    /\ Len(entity.value.stop_times) = 2
    /\ entity.value.stop_times[1].stop = 1
    /\ entity.value.stop_times[2].stop = 1
    /\ result.value.stop_times[1].stop = 5
    /\ result.value.stop_times[2].stop = 6
    /\ heap[1] = SharedStops[1]

\* The value the claim gives a text member: the index entry under the
\* member's own key when there is one, else the member's own value.
OwnKeyValue(m, original) ==
    LET k == ByIdKey(m[2], m[3], language, entity.value.id, None) IN
    IF k \in DOMAIN index THEN index[k] ELSE original

\* C17 (as claimed): every translatable text field of a Stop, Route or Trip
\* is the index entry under (table, the field's own name, language, the
\* entity's own id, no sub id) when there is one and the field's own
\* original value otherwise, and every lookup is keyed by an id.
C17_OwnKeyOwnValue ==
    result.kind \in {"stop", "route", "trip"} =>
        /\ \A m \in RequiredTextMembers[result.kind] :
              result.value[m[1]] = OwnKeyValue(m, entity.value[m[1]])
        /\ \A m \in OptionalTextMembers[result.kind] :
              result.value[m[1]] =
                 (IF entity.value[m[1]] = None THEN None
                  ELSE Some(OwnKeyValue(m, entity.value[m[1]][1])))
        /\ \A c \in lookups :
              c[1][1] = "trips" => c[1][4] = entity.value.id

(***************************************************************************)
(* Properties of the lenient enumerations                                  *)
(***************************************************************************)
IsBlank(t) == \A i \in 1..Len(t) : IsWhitespace(t[i])

EnumCodes ==
    [location_type |-> {Chr("0"), Chr("1"), Chr("2"), Chr("3"), Chr("4")},
     wheelchair_boarding |-> {Chr("0"), Chr("1"), Chr("2")},
     pickup_type |-> {Chr("0"), Chr("1"), Chr("2"), Chr("3")}]

\* C15 (as claimed): for the lenient enumerations a cell that is present,
\* not blank and not one of the enumeration's codes yields a decode error;
\* it is never decoded to the default or to any other value.
C15_LenientFailClosed ==
    (/\ epc = "done"
     /\ len_cell # None
     /\ ~IsBlank(len_cell[1])
     /\ len_cell[1] \notin EnumCodes[len_kind])
    => len_result = DecodeError

(***************************************************************************)
(* Properties of the calendar date codec                                   *)
(***************************************************************************)
\* C16 (as claimed): a date with a single-digit month or day is written
\* with fewer than 8 digits and is not what the decoder returns from that
\* text; a 4-digit-year date with month and day of two digits is.
C16_DateRoundTrip ==
    dpc = "decoded" =>
        /\ (date_in[2] < 10 \/ date_in[3] < 10) =>
              /\ Len(date_text) < 8
              /\ date_back # OkDate(date_in[1], date_in[2], date_in[3])
        /\ (date_in[1] \in 1000..9999 /\ date_in[2] >= 10 /\ date_in[3] >= 10) =>
              date_back = OkDate(date_in[1], date_in[2], date_in[3])

====
